---- MODULE Spec2Model ----
(***************************************************************************)
(* AnchorHex rules engine (src/src/game/engine.ts): the hex topology, the  *)
(* breadth-first reachability, capture by disconnection, the legal-move    *)
(* mask, the board fingerprint, the area score and placeStone; and the     *)
(* application state that drives it (App: tryPlace, onPass).               *)
(***************************************************************************)
EXTENDS Integers, Sequences, FiniteSets, TLC

\* board, call, ret: a board held by a caller, the last engine call made on
\* it and what the call returned.  app: the state of App besides its board
\* (player, move, history, positionHistory, gameOver); the board of App is
\* the variable board.
VARIABLES board, call, ret, app

vars == <<board, call, ret, app>>

----------------------------------------------------------------------------
(* Constants of engine.ts *)

ROWS == 8
COLS == 8

EMPTY == 0
WHITE_STONE == 1
BLACK_STONE == 2
WHITE_BASE == 3
BLACK_BASE == 4

Cell == {EMPTY, WHITE_STONE, BLACK_STONE, WHITE_BASE, BLACK_BASE}
Player == {"BLACK", "WHITE"}

WHITE_BASE_POS == [r |-> 0, c |-> 4]
BLACK_BASE_POS == [r |-> ROWS - 1, c |-> 3]

RowIdx == 0 .. (ROWS - 1)
ColIdx == 0 .. (COLS - 1)

cloneBoard(b) == [r \in RowIdx |-> [c \in ColIdx |-> b[r][c]]]

\* a copy made by board.slice(): a new outer array holding the same rows
cloneSharesRows_Shallow(b) == TRUE

\* board.map((row) => row.slice()) builds a new outer array of new rows: the
\* copy shares no row with b
cloneSharesRows(b) == FALSE

\* the content of the caller's array b once the callee has brought its
\* copy of b to the content work: writes reach b only through shared rows
callerBoardAfter(b, work) == IF cloneSharesRows(b) THEN work ELSE b

makeInitialBoard ==
  [r \in RowIdx |-> [c \in ColIdx |->
     IF r = WHITE_BASE_POS.r /\ c = WHITE_BASE_POS.c THEN WHITE_BASE
     ELSE IF r = BLACK_BASE_POS.r /\ c = BLACK_BASE_POS.c THEN BLACK_BASE
     ELSE EMPTY]]

\* direction tables hold <<dc, dr>> pairs
ODD_Q_DIRS == << <<1, 0>>, <<1, -1>>, <<0, -1>>, <<-1, -1>>, <<-1, 0>>, <<0, 1>> >>
EVEN_Q_DIRS == << <<1, 1>>, <<1, 0>>, <<0, -1>>, <<-1, 0>>, <<-1, 1>>, <<0, 1>> >>

inBounds(r, c) == r >= 0 /\ r < ROWS /\ c >= 0 /\ c < COLS

\* neighbors reading EVEN_Q_DIRS for every column
neighbors_OneTable(r, c) ==
  LET dirs == EVEN_Q_DIRS
      cand == [i \in 1 .. Len(dirs) |-> <<r + dirs[i][2], c + dirs[i][1]>>]
  IN SelectSeq(cand, LAMBDA p : inBounds(p[1], p[2]))

\* neighbors choosing the tables the other way round
neighbors_TablesSwapped(r, c) ==
  LET dirs == IF c % 2 = 0 THEN ODD_Q_DIRS ELSE EVEN_Q_DIRS
      cand == [i \in 1 .. Len(dirs) |-> <<r + dirs[i][2], c + dirs[i][1]>>]
  IN SelectSeq(cand, LAMBDA p : inBounds(p[1], p[2]))

\* the list of in-bounds neighbours <<nr, nc>>, in table order
neighbors(r, c) ==
  LET dirs == IF c % 2 = 0 THEN EVEN_Q_DIRS ELSE ODD_Q_DIRS
      cand == [i \in 1 .. Len(dirs) |-> <<r + dirs[i][2], c + dirs[i][1]>>]
  IN SelectSeq(cand, LAMBDA p : inBounds(p[1], p[2]))

\* neighbors is a pure function of (r, c): its value at every board cell
NeighborTable == [r \in RowIdx |-> [c \in ColIdx |-> neighbors(r, c)]]

playerStone(p) == IF p = "WHITE" THEN WHITE_STONE ELSE BLACK_STONE
playerBase(p) == IF p = "WHITE" THEN WHITE_BASE ELSE BLACK_BASE
playerBasePos(p) == IF p = "WHITE" THEN WHITE_BASE_POS ELSE BLACK_BASE_POS

opponent(p) == IF p = "WHITE" THEN "BLACK" ELSE "WHITE"

----------------------------------------------------------------------------
(* bfsFromBase: the queue q, the read index qi and the visited grid vis *)

\* bfsTraversable with the stone test dropped: any stone is walked through
bfsTraversable_AnyStone(v, player, mode) ==
  IF mode = "stones+empties"
  THEN v = EMPTY \/ v = playerBase(player) \/ v = WHITE_STONE \/ v = BLACK_STONE
  ELSE v = EMPTY

bfsTraversable(v, player, mode) ==
  IF mode = "stones+empties"
  THEN v = EMPTY \/ v = playerBase(player) \/ v = playerStone(player)
  ELSE v = EMPTY

\* the inner loop pushing a neighbour without marking it visited
RECURSIVE bfsExpand_NoMark(_, _, _, _, _, _)
bfsExpand_NoMark(b, player, mode, nbrs, i, st) ==
  IF i > Len(nbrs) THEN st
  ELSE LET nr == nbrs[i][1]
           nc == nbrs[i][2]
       IN IF st.vis[nr][nc] THEN bfsExpand_NoMark(b, player, mode, nbrs, i + 1, st)
          ELSE IF bfsTraversable(b[nr][nc], player, mode)
          THEN bfsExpand_NoMark(b, player, mode, nbrs, i + 1,
                 [st EXCEPT !.q = Append(st.q, <<nr, nc>>)])
          ELSE bfsExpand_NoMark(b, player, mode, nbrs, i + 1, st)

\* the inner loop left (break) after the first neighbour it pushes
RECURSIVE bfsExpand_BreaksAfterPush(_, _, _, _, _, _)
bfsExpand_BreaksAfterPush(b, player, mode, nbrs, i, st) ==
  IF i > Len(nbrs) THEN st
  ELSE LET nr == nbrs[i][1]
           nc == nbrs[i][2]
       IN IF st.vis[nr][nc] THEN bfsExpand_BreaksAfterPush(b, player, mode, nbrs, i + 1, st)
          ELSE IF bfsTraversable(b[nr][nc], player, mode)
          THEN [st EXCEPT !.vis[nr][nc] = TRUE, !.q = Append(st.q, <<nr, nc>>)]
          ELSE bfsExpand_BreaksAfterPush(b, player, mode, nbrs, i + 1, st)

\* the inner for loop over the neighbours nbrs[i..] of the dequeued cell
RECURSIVE bfsExpand(_, _, _, _, _, _)
bfsExpand(b, player, mode, nbrs, i, st) ==
  IF i > Len(nbrs) THEN st
  ELSE LET nr == nbrs[i][1]
           nc == nbrs[i][2]
       IN IF st.vis[nr][nc] THEN bfsExpand(b, player, mode, nbrs, i + 1, st)
          ELSE IF bfsTraversable(b[nr][nc], player, mode)
          THEN bfsExpand(b, player, mode, nbrs, i + 1,
                 [st EXCEPT !.vis[nr][nc] = TRUE, !.q = Append(st.q, <<nr, nc>>)])
          ELSE bfsExpand(b, player, mode, nbrs, i + 1, st)

\* a pass whose inner loop pushes neighbours without marking them visited
bfsStep_PushesUnmarked(b, player, mode, st) ==
  IF st.qi >= Len(st.q) THEN st
  ELSE LET cur == st.q[st.qi + 1]
       IN bfsExpand_NoMark(b, player, mode, NeighborTable[cur[1]][cur[2]], 1,
                           [st EXCEPT !.qi = st.qi + 1])

\* one pass of the while loop: nothing once qi has reached q.length,
\* otherwise dequeue q[qi++] (1-based position qi + 1) and expand it
bfsStep(b, player, mode, st) ==
  IF st.qi >= Len(st.q) THEN st
  ELSE LET cur == st.q[st.qi + 1]
       IN bfsExpand(b, player, mode, NeighborTable[cur[1]][cur[2]], 1,
                    [st EXCEPT !.qi = st.qi + 1])

\* n passes of the while loop, done as two halves; the second half is
\* skipped when the loop has already ended (qi = q.length) after the first
RECURSIVE bfsLoop(_, _, _, _, _)
bfsLoop(b, player, mode, st, n) ==
  IF n = 0 THEN st
  ELSE IF n = 1 THEN bfsStep(b, player, mode, st)
  ELSE LET half == bfsLoop(b, player, mode, st, n \div 2)
       IN IF half.qi >= Len(half.q) THEN half
          ELSE bfsLoop(b, player, mode, half, n - (n \div 2))

bfsStart(player) ==
  LET bp == playerBasePos(player)
  IN [vis |-> [r \in RowIdx |-> [c \in ColIdx |-> r = bp.r /\ c = bp.c]],
      q |-> << <<bp.r, bp.c>> >>,
      qi |-> 0]

\* a cell is pushed only when not yet visited, so the queue never holds more
\* than ROWS * COLS cells and the loop has ended after that many passes; the
\* result is the grid vis of the state in which qi = q.length
bfsFromBase(b, player, mode) ==
  LET end == bfsLoop(b, player, mode, bfsStart(player), ROWS * COLS)
  IN (CHOOSE st \in {end} : st.qi >= Len(st.q)).vis

----------------------------------------------------------------------------
(* resolveCaptures and boardHash *)

\* resolveCaptures done one colour after the other: White's dead stones are
\* removed first and Black is judged on the board that leaves
resolveCaptures_Sequential(b) ==
  LET wReach == bfsFromBase(b, "WHITE", "stones+empties")
      mid == [r \in RowIdx |-> [c \in ColIdx |->
                IF b[r][c] = WHITE_STONE /\ ~wReach[r][c] THEN EMPTY ELSE b[r][c]]]
      bReach == bfsFromBase(mid, "BLACK", "stones+empties")
  IN [r \in RowIdx |-> [c \in ColIdx |->
        IF mid[r][c] = BLACK_STONE /\ ~bReach[r][c] THEN EMPTY ELSE mid[r][c]]]

\* resolveCaptures judging White's stones only
resolveCaptures_WhiteOnly(b) ==
  LET wReach == bfsFromBase(b, "WHITE", "stones+empties")
  IN [r \in RowIdx |-> [c \in ColIdx |->
        IF b[r][c] = WHITE_STONE /\ ~wReach[r][c] THEN EMPTY ELSE b[r][c]]]

resolveCaptures(b) ==
  LET wReach == bfsFromBase(b, "WHITE", "stones+empties")
      bReach == bfsFromBase(b, "BLACK", "stones+empties")
  IN [r \in RowIdx |-> [c \in ColIdx |->
        IF b[r][c] = WHITE_STONE /\ ~wReach[r][c] THEN EMPTY
        ELSE IF b[r][c] = BLACK_STONE /\ ~bReach[r][c] THEN EMPTY
        ELSE b[r][c]]]

\* rowStr stopping one column early
RECURSIVE rowStr_SkipsLast(_, _, _)
rowStr_SkipsLast(b, r, c) ==
  IF c >= COLS - 1 THEN "" ELSE ToString(b[r][c]) \o rowStr_SkipsLast(b, r, c + 1)

\* string concatenation of the cell digits of row r, columns c..COLS-1
RECURSIVE rowStr(_, _, _)
rowStr(b, r, c) ==
  IF c >= COLS THEN "" ELSE ToString(b[r][c]) \o rowStr(b, r, c + 1)

\* parts.join("|") over rows r..ROWS-1
RECURSIVE joinRows(_, _)
joinRows(b, r) ==
  IF r = ROWS - 1 THEN rowStr(b, r, 0)
  ELSE rowStr(b, r, 0) \o "|" \o joinRows(b, r + 1)

boardHash(b) == joinRows(b, 0)

----------------------------------------------------------------------------
(* computeLegalMoves: opts.forbidPositions is modelled as a record, has     *)
(* telling whether a set was supplied (an empty Set object is truthy)      *)

NoForbid == [has |-> FALSE, set |-> {}]
Forbid(S) == [has |-> TRUE, set |-> S]

\* legalCell testing the placed stone on tmp instead of on the resolved board
legalCell_ChecksUnresolved(b, player, forbid, reach, r, c) ==
  LET myStone == playerStone(player)
      isLegal0 == reach[r][c] /\ b[r][c] = EMPTY
      tmp == [cloneBoard(b) EXCEPT ![r][c] = myStone]
      after == resolveCaptures(tmp)
      isLegal1 == IF ~isLegal0 THEN tmp[r][c] = myStone ELSE isLegal0
  IN IF b[r][c] # EMPTY THEN isLegal0
     ELSE IF ~isLegal0 \/ forbid.has
     THEN IF isLegal1 /\ forbid.has /\ boardHash(after) \in forbid.set
          THEN FALSE ELSE isLegal1
     ELSE isLegal0

\* legalCell without the forbid.has(boardHash(after)) test
legalCell_IgnoresForbid(b, player, forbid, reach, r, c) ==
  LET myStone == playerStone(player)
      isLegal0 == reach[r][c] /\ b[r][c] = EMPTY
      tmp == [cloneBoard(b) EXCEPT ![r][c] = myStone]
      after == resolveCaptures(tmp)
      isLegal1 == IF ~isLegal0 THEN after[r][c] = myStone ELSE isLegal0
  IN IF b[r][c] # EMPTY THEN isLegal0
     ELSE IF ~isLegal0 \/ forbid.has THEN isLegal1
     ELSE isLegal0

\* legalCell where a supplied set replaces the survival test instead of
\* following it
legalCell_ForbidSkipsSurvival(b, player, forbid, reach, r, c) ==
  LET myStone == playerStone(player)
      isLegal0 == reach[r][c] /\ b[r][c] = EMPTY
      tmp == [cloneBoard(b) EXCEPT ![r][c] = myStone]
      after == resolveCaptures(tmp)
  IN IF b[r][c] # EMPTY THEN isLegal0
     ELSE IF forbid.has THEN boardHash(after) \notin forbid.set
     ELSE IF ~isLegal0 THEN after[r][c] = myStone
     ELSE isLegal0

\* the body of the double loop for one cell; reach is the stones+empties mask
legalCell(b, player, forbid, reach, r, c) ==
  LET myStone == playerStone(player)
      isLegal0 == reach[r][c] /\ b[r][c] = EMPTY
      tmp == [cloneBoard(b) EXCEPT ![r][c] = myStone]
      after == resolveCaptures(tmp)
      isLegal1 == IF ~isLegal0 THEN after[r][c] = myStone ELSE isLegal0
  IN IF b[r][c] # EMPTY THEN isLegal0
     ELSE IF ~isLegal0 \/ forbid.has
     THEN IF isLegal1 /\ forbid.has /\ boardHash(after) \in forbid.set
          THEN FALSE ELSE isLegal1
     ELSE isLegal0

computeLegalMoves(b, player, forbid) ==
  LET reach == bfsFromBase(b, player, "stones+empties")
  IN [r \in RowIdx |-> [c \in ColIdx |-> legalCell(b, player, forbid, reach, r, c)]]

----------------------------------------------------------------------------
(* placeStone: the result is null, a fresh board, or a thrown TypeError    *)
(* (board[r] is undefined when r is not a row index)                       *)

Null == [kind |-> "null", board |-> <<>>]
Thrown == [kind |-> "throw", board |-> <<>>]
Accepted(b) == [kind |-> "board", board |-> b]

\* placeStone without the legal[r][c] test
placeStone_NoLegalCheck(b, player, r, c, forbid) ==
  IF r \notin RowIdx THEN Thrown
  ELSE IF c \notin ColIdx THEN Null
  ELSE IF b[r][c] # EMPTY THEN Null
  ELSE LET next == [cloneBoard(b) EXCEPT ![r][c] = playerStone(player)]
           resolved == resolveCaptures(next)
       IN IF forbid.has /\ boardHash(resolved) \in forbid.set THEN Null
          ELSE Accepted(resolved)

\* placeStone returning next, the board before capture resolution
placeStone_ReturnsNext(b, player, r, c, forbid) ==
  IF r \notin RowIdx THEN Thrown
  ELSE IF c \notin ColIdx THEN Null
  ELSE IF b[r][c] # EMPTY THEN Null
  ELSE LET legal == computeLegalMoves(b, player, forbid)
           next == [cloneBoard(b) EXCEPT ![r][c] = playerStone(player)]
           resolved == resolveCaptures(next)
       IN IF ~legal[r][c] THEN Null
          ELSE IF forbid.has /\ boardHash(resolved) \in forbid.set THEN Null
          ELSE Accepted(next)

\* placeStone deciding by simulation only: no occupied-cell test, accepted
\* when the written stone is still there after capture resolution
placeStone_SurvivalOnly(b, player, r, c, forbid) ==
  IF r \notin RowIdx THEN Thrown
  ELSE IF c \notin ColIdx THEN Null
  ELSE LET next == [cloneBoard(b) EXCEPT ![r][c] = playerStone(player)]
           resolved == resolveCaptures(next)
       IN IF resolved[r][c] # playerStone(player) THEN Null
          ELSE IF forbid.has /\ boardHash(resolved) \in forbid.set THEN Null
          ELSE Accepted(resolved)

\* placeStone returning board, the array it was given, instead of resolved
placeStone_ReturnsInput(b, player, r, c, forbid) ==
  IF r \notin RowIdx THEN Thrown
  ELSE IF c \notin ColIdx THEN Null
  ELSE IF b[r][c] # EMPTY THEN Null
  ELSE LET legal == computeLegalMoves(b, player, forbid)
           next == [cloneBoard(b) EXCEPT ![r][c] = playerStone(player)]
           resolved == resolveCaptures(next)
       IN IF ~legal[r][c] THEN Null
          ELSE IF forbid.has /\ boardHash(resolved) \in forbid.set THEN Null
          ELSE Accepted(b)

placeStone(b, player, r, c, forbid) ==
  IF r \notin RowIdx THEN Thrown
  ELSE IF c \notin ColIdx THEN Null
  ELSE IF b[r][c] # EMPTY THEN Null
  ELSE LET legal == computeLegalMoves(b, player, forbid)
           next == [cloneBoard(b) EXCEPT ![r][c] = playerStone(player)]
           resolved == resolveCaptures(next)
       IN IF ~legal[r][c] THEN Null
          ELSE IF forbid.has /\ boardHash(resolved) \in forbid.set THEN Null
          ELSE Accepted(resolved)

----------------------------------------------------------------------------
(* computeAreaScore and bothNoMoves *)

\* the number of cells at which the predicate holds; Hit(r, c) is a boolean
CountCells(Hit(_, _)) ==
  Cardinality({x \in RowIdx \X ColIdx : Hit(x[1], x[2])})

\* computeAreaScore counting an empty cell for a player whenever that player
\* reaches it, also when the opponent reaches it too
computeAreaScore_SharedCounts(b) ==
  LET wEmpty == bfsFromBase(b, "WHITE", "emptiesOnly")
      bEmpty == bfsFromBase(b, "BLACK", "emptiesOnly")
      wStones == CountCells(LAMBDA r, c : b[r][c] = WHITE_STONE)
      bStones == CountCells(LAMBDA r, c : b[r][c] = BLACK_STONE)
      wTerr == CountCells(LAMBDA r, c : b[r][c] = EMPTY /\ wEmpty[r][c])
      bTerr == CountCells(LAMBDA r, c : b[r][c] = EMPTY /\ bEmpty[r][c])
  IN [white |-> wStones + wTerr, black |-> bStones + bTerr,
      breakdown |-> [wStones |-> wStones, bStones |-> bStones,
                     wTerr |-> wTerr, bTerr |-> bTerr]]

\* computeAreaScore adding each player's base to that player's total
computeAreaScore_CountsBases(b) ==
  LET wEmpty == bfsFromBase(b, "WHITE", "emptiesOnly")
      bEmpty == bfsFromBase(b, "BLACK", "emptiesOnly")
      wStones == CountCells(LAMBDA r, c : b[r][c] = WHITE_STONE)
      bStones == CountCells(LAMBDA r, c : b[r][c] = BLACK_STONE)
      wTerr == CountCells(LAMBDA r, c : b[r][c] = EMPTY /\ wEmpty[r][c] /\ ~bEmpty[r][c])
      bTerr == CountCells(LAMBDA r, c : b[r][c] = EMPTY /\ bEmpty[r][c] /\ ~wEmpty[r][c])
  IN [white |-> wStones + wTerr + CountCells(LAMBDA r, c : b[r][c] = WHITE_BASE),
      black |-> bStones + bTerr + CountCells(LAMBDA r, c : b[r][c] = BLACK_BASE),
      breakdown |-> [wStones |-> wStones, bStones |-> bStones,
                     wTerr |-> wTerr, bTerr |-> bTerr]]

\* the four counters after the double loop: a cell raises wStones, bStones,
\* wTerr (wr && !br) or bTerr (br && !wr), or none of them
computeAreaScore(b) ==
  LET wEmpty == bfsFromBase(b, "WHITE", "emptiesOnly")
      bEmpty == bfsFromBase(b, "BLACK", "emptiesOnly")
      wStones == CountCells(LAMBDA r, c : b[r][c] = WHITE_STONE)
      bStones == CountCells(LAMBDA r, c : b[r][c] = BLACK_STONE)
      wTerr == CountCells(LAMBDA r, c : b[r][c] = EMPTY /\ wEmpty[r][c] /\ ~bEmpty[r][c])
      bTerr == CountCells(LAMBDA r, c : b[r][c] = EMPTY /\ bEmpty[r][c] /\ ~wEmpty[r][c])
  IN [white |-> wStones + wTerr, black |-> bStones + bTerr,
      breakdown |-> [wStones |-> wStones, bStones |-> bStones,
                     wTerr |-> wTerr, bTerr |-> bTerr]]

\* mask.some((row) => row.some(Boolean))
any(mask) == \E r \in RowIdx : \E c \in ColIdx : mask[r][c]

\* bothNoMoves answering true as soon as one player has no move
bothNoMoves_Either(b) ==
  \/ ~any(computeLegalMoves(b, "WHITE", NoForbid))
  \/ ~any(computeLegalMoves(b, "BLACK", NoForbid))

bothNoMoves(b) ==
  /\ ~any(computeLegalMoves(b, "WHITE", NoForbid))
  /\ ~any(computeLegalMoves(b, "BLACK", NoForbid))

----------------------------------------------------------------------------
(* What the engine writes.  Every write of the engine goes to a copy made   *)
(* by cloneBoard (tmp in computeLegalMoves, next in resolveCaptures and in  *)
(* placeStone); bfsFromBase, boardHash and computeAreaScore only read the   *)
(* board.  The forbidden set is only asked forbid.has(h).                  *)

\* tmp[r][c] = myStone at every cell whose placement is simulated
legalMovesWrites(b, player, forbid) ==
  LET reach == bfsFromBase(b, player, "stones+empties")
  IN [r \in RowIdx |-> [c \in ColIdx |->
        IF b[r][c] = EMPTY /\ (~reach[r][c] \/ forbid.has)
        THEN playerStone(player) ELSE b[r][c]]]

\* next[r][c] = playerStone(player), reached only past the legal test
placeStoneWrites(b, player, r, c, forbid) ==
  IF ~inBounds(r, c) THEN b
  ELSE IF b[r][c] # EMPTY THEN b
  ELSE IF ~computeLegalMoves(b, player, forbid)[r][c]
  THEN legalMovesWrites(b, player, forbid)
  ELSE [b EXCEPT ![r][c] = playerStone(player)]

\* the caller's Set after the call: has() neither adds nor deletes
forbidAfterCall(forbid) == forbid

----------------------------------------------------------------------------
(* Boards handed to the engine: the initial board with stones written      *)
(* directly into cells of the top-right corner, as the tests do.  The      *)
(* corner cell (0,7) has the two neighbours (0,6) and (1,7); the other      *)
(* neighbours of those two are the four ring cells.                        *)

MaxStones == 2
MaxForbid == 1

InnerCells == {<<0, 7>>, <<0, 6>>, <<1, 7>>}
RingCells == {<<0, 5>>, <<1, 5>>, <<1, 6>>, <<2, 7>>}
SetupCells == InnerCells \cup RingCells
SparseCells == InnerCells \cup {<<1, 6>>}

Stones == {WHITE_STONE, BLACK_STONE}

SetupBoard(f) ==
  [r \in RowIdx |-> [c \in ColIdx |->
     IF <<r, c>> \in SetupCells THEN f[<<r, c>>] ELSE makeInitialBoard[r][c]]]

\* every way to write at most MaxStones stones into the sparse cells
SparseSetups ==
  {g \in [SetupCells -> {EMPTY} \cup Stones] :
     /\ \A x \in SetupCells \ SparseCells : g[x] = EMPTY
     /\ Cardinality({x \in SparseCells : g[x] # EMPTY}) <= MaxStones}

\* the ring filled with stones of one colour, the inner cells arbitrary
EnclosedSetups ==
  {g \in [SetupCells -> {EMPTY} \cup Stones] :
     \E s \in Stones : \A x \in RingCells : g[x] = s}

SetupBoards == {SetupBoard(g) : g \in SparseSetups \cup EnclosedSetups}

\* coordinates offered to placeStone: the inner corner cells, the White
\* base, and one coordinate beyond each edge
PlaceCoords ==
  InnerCells \cup {<<WHITE_BASE_POS.r, WHITE_BASE_POS.c>>}
OutCoords == {<<-1, 0>>, <<ROWS, 0>>, <<0, -1>>, <<0, COLS>>}

\* the board after writing player's stone at (r, c) and resolving captures
PlacedResolved(b, player, r, c) ==
  resolveCaptures([b EXCEPT ![r][c] = playerStone(player)])

\* fingerprints a caller's position history may hold at this call
HashCandidates(b, player, r, c) ==
  IF inBounds(r, c) /\ b[r][c] = EMPTY
  THEN {boardHash(b), boardHash(PlacedResolved(b, player, r, c))}
  ELSE {boardHash(b)}

ForbidChoices(b, player, r, c) ==
  {NoForbid} \cup {Forbid(S) : S \in {T \in SUBSET HashCandidates(b, player, r, c) :
                                        Cardinality(T) <= MaxForbid}}

\* A board late in a game: White holds the upper half and (4,7), Black the
\* rest, and the cells of free are still empty
whiteZone(r, c) == r <= 3 \/ (r = 4 /\ c = 7)

ZoneBoard(free) ==
  [r \in RowIdx |-> [c \in ColIdx |->
     IF makeInitialBoard[r][c] # EMPTY THEN makeInitialBoard[r][c]
     ELSE IF <<r, c>> \in free THEN EMPTY
     ELSE IF whiteZone(r, c) THEN WHITE_STONE ELSE BLACK_STONE]]

\* the corner cells and the cell Black fills last
CornerCells == InnerCells \cup {<<1, 6>>}
BlackLastCell == <<7, 0>>

\* the full board, the full board but the corner cell, the board with the
\* corner and Black's last cell open, and a board with one open cell next
\* to each base
EndBoards ==
  {ZoneBoard({}), ZoneBoard({<<0, 7>>}),
   ZoneBoard(CornerCells \cup {BlackLastCell}),
   ZoneBoard({<<0, 5>>, <<7, 4>>, <<0, 7>>})}

\* each behaviour is one engine call on the board drawn by Init
NoCall ==
  [op |-> "none", player |-> "BLACK", r |-> 0, c |-> 0,
   forbid |-> NoForbid, after |-> NoForbid]
Mask(m) == [kind |-> "mask", board |-> m]
Hash(h) == [kind |-> "hash", hash |-> h]
Score(s) == [kind |-> "score", score |-> s]
Bool(v) == [kind |-> "bool", value |-> v]
Cells(l) == [kind |-> "cells", cells |-> l]
Search(st) == [kind |-> "search", st |-> st]

START_PLAYER == "BLACK"

\* the useState initial values of App
AppInit ==
  [board |-> makeInitialBoard, player |-> START_PLAYER, move |-> 1,
   history |-> <<>>, positionHistory |-> <<boardHash(makeInitialBoard)>>,
   gameOver |-> FALSE]

\* the state of App as one record, and the part of it kept in app
AppState ==
  [board |-> board, player |-> app.player, move |-> app.move,
   history |-> app.history, positionHistory |-> app.positionHistory,
   gameOver |-> app.gameOver]

AppRest(g) ==
  [player |-> g.player, move |-> g.move, history |-> g.history,
   positionHistory |-> g.positionHistory, gameOver |-> g.gameOver]

\* the application has just been constructed and is left alone
AppIdle == app = AppRest(AppInit)

Init ==
  /\ board \in SetupBoards \cup EndBoards
  /\ call = NoCall
  /\ ret = Null
  /\ AppIdle

\* placeStone(board, p, r, c, opts) on an in-bounds coordinate
CallPlaceStone ==
  \E p \in Player, rc \in PlaceCoords :
    \E F \in ForbidChoices(board, p, rc[1], rc[2]) :
      /\ call = NoCall
      /\ call' = [op |-> "placeStone", player |-> p, r |-> rc[1], c |-> rc[2],
                  forbid |-> F, after |-> forbidAfterCall(F)]
      /\ ret' = placeStone(board, p, rc[1], rc[2], F)
      /\ board' = callerBoardAfter(board, placeStoneWrites(board, p, rc[1], rc[2], F))
      /\ UNCHANGED app

\* placeStone on a coordinate outside the grid
CallPlaceStoneOutside ==
  \E p \in Player, rc \in OutCoords :
    \E F \in {NoForbid, Forbid({boardHash(board)})} :
      /\ call = NoCall
      /\ call' = [op |-> "placeStone", player |-> p, r |-> rc[1], c |-> rc[2],
                  forbid |-> F, after |-> forbidAfterCall(F)]
      /\ ret' = placeStone(board, p, rc[1], rc[2], F)
      /\ board' = callerBoardAfter(board, placeStoneWrites(board, p, rc[1], rc[2], F))
      /\ UNCHANGED app

\* computeLegalMoves(board, p) without options
CallComputeLegalMoves ==
  \E p \in Player :
    /\ call = NoCall
    /\ call' = [NoCall EXCEPT !.op = "computeLegalMoves", !.player = p]
    /\ ret' = Mask(computeLegalMoves(board, p, NoForbid))
    /\ board' = callerBoardAfter(board, legalMovesWrites(board, p, NoForbid))
    /\ UNCHANGED app

CallResolveCaptures ==
  /\ call = NoCall
  /\ call' = [NoCall EXCEPT !.op = "resolveCaptures"]
  /\ ret' = Accepted(resolveCaptures(board))
  /\ board' = callerBoardAfter(board, resolveCaptures(board))
  /\ UNCHANGED app

\* bfsFromBase(board, p, mode): the board is only read
CallBfsFromBase ==
  \E p \in Player, mode \in {"stones+empties", "emptiesOnly"} :
    /\ call = NoCall
    /\ call' = [op |-> "bfsFromBase", player |-> p, r |-> 0, c |-> 0,
                forbid |-> NoForbid, after |-> NoForbid, mode |-> mode]
    /\ ret' = Mask(bfsFromBase(board, p, mode))
    /\ board' = board
    /\ UNCHANGED app

\* boardHash(board): the board is only read
CallBoardHash ==
  /\ call = NoCall
  /\ call' = [NoCall EXCEPT !.op = "boardHash"]
  /\ ret' = Hash(boardHash(board))
  /\ board' = board
  /\ UNCHANGED app

\* computeAreaScore(board): the board is only read
CallComputeAreaScore ==
  /\ call = NoCall
  /\ call' = [NoCall EXCEPT !.op = "computeAreaScore"]
  /\ ret' = Score(computeAreaScore(board))
  /\ board' = board
  /\ UNCHANGED app

\* bothNoMoves(board): two computeLegalMoves calls without options
CallBothNoMoves ==
  /\ call = NoCall
  /\ call' = [NoCall EXCEPT !.op = "bothNoMoves"]
  /\ ret' = Bool(bothNoMoves(board))
  /\ board' = callerBoardAfter(
                 callerBoardAfter(board, legalMovesWrites(board, "WHITE", NoForbid)),
                 legalMovesWrites(board, "BLACK", NoForbid))
  /\ UNCHANGED app

Next ==
  \/ CallPlaceStone
  \/ CallPlaceStoneOutside
  \/ CallComputeLegalMoves
  \/ CallResolveCaptures
  \/ CallBfsFromBase
  \/ CallBoardHash
  \/ CallComputeAreaScore
  \/ CallBothNoMoves

Spec == Init /\ [][Next]_vars

TypeOK ==
  /\ board \in [RowIdx -> [ColIdx -> Cell]]
  /\ ret.kind \in {"null", "board", "throw", "mask", "hash", "score", "bool",
                   "cells", "search"}
  /\ app.player \in Player
  /\ app.move \in Nat \ {0}
  /\ app.gameOver \in BOOLEAN
  /\ Len(app.positionHistory) >= 1

----------------------------------------------------------------------------
(* A game played straight on the engine: placeStone is called over and     *)
(* over, by either player, with or without a set, and each board it        *)
(* returns is the board passed to the next call.  board is the board       *)
(* passed to the last accepted call and ret what that call returned.       *)

PlayCoords == PlaceCoords
PlayForbids == {NoForbid, Forbid({boardHash(makeInitialBoard)})}

\* the board the caller holds now
Current == IF ret.kind = "board" THEN ret.board ELSE board

PlayInit ==
  /\ board = makeInitialBoard
  /\ call = NoCall
  /\ ret = Null
  /\ AppIdle

\* one placeStone call on the current board; a null result changes nothing
PlayStone ==
  \E p \in Player, rc \in PlayCoords, F \in PlayForbids :
    LET cur == Current
        res == placeStone(cur, p, rc[1], rc[2], F)
    IN IF res.kind = "board"
       THEN /\ board' = callerBoardAfter(cur, placeStoneWrites(cur, p, rc[1], rc[2], F))
            /\ call' = [op |-> "placeStone", player |-> p, r |-> rc[1], c |-> rc[2],
                        forbid |-> F, after |-> forbidAfterCall(F)]
            /\ ret' = res
            /\ UNCHANGED app
       ELSE UNCHANGED vars

PlayNext == PlayStone

PlaySpec == PlayInit /\ [][PlayNext]_vars

----------------------------------------------------------------------------
(* App: the handlers tryPlace and onPass as functions of the state record   *)
(* g = [board, player, move, history, positionHistory, gameOver]           *)

\* useMemo(() => new Set(positionHistory))
forbidSet(g) == Forbid({g.positionHistory[i] : i \in 1 .. Len(g.positionHistory)})

legalMask(g) == computeLegalMoves(g.board, g.player, forbidSet(g))

anyLegal(g) == any(legalMask(g))

\* setHistory((h) => [...h, { board: cloneBoard(board), player, move }])
pushHistory(g) ==
  [g EXCEPT !.history =
     Append(g.history, [board |-> cloneBoard(g.board), player |-> g.player, move |-> g.move])]

\* tryPlace without setPositionHistory
tryPlaceWith_KeepsPositions(g, r, c, resolved) ==
  IF g.gameOver THEN g
  ELSE IF g.board[r][c] # EMPTY THEN g
  ELSE IF ~legalMask(g)[r][c] THEN g
  ELSE IF resolved.kind # "board" THEN pushHistory(g)
  ELSE LET nextForbid == Forbid(forbidSet(g).set \cup {boardHash(resolved.board)})
           wAny == any(computeLegalMoves(resolved.board, "WHITE", nextForbid))
           bAny == any(computeLegalMoves(resolved.board, "BLACK", nextForbid))
       IN [board |-> resolved.board,
           player |-> opponent(g.player),
           move |-> g.move + 1,
           history |-> pushHistory(g).history,
           positionHistory |-> g.positionHistory,
           gameOver |-> IF ~wAny /\ ~bAny THEN TRUE ELSE g.gameOver]

\* tryPlace ending the game as soon as the player now to move has no move
tryPlaceWith_EndsForMover(g, r, c, resolved) ==
  IF g.gameOver THEN g
  ELSE IF g.board[r][c] # EMPTY THEN g
  ELSE IF ~legalMask(g)[r][c] THEN g
  ELSE IF resolved.kind # "board" THEN pushHistory(g)
  ELSE LET nextForbid == Forbid(forbidSet(g).set \cup {boardHash(resolved.board)})
           nAny == any(computeLegalMoves(resolved.board, opponent(g.player), nextForbid))
       IN [board |-> resolved.board,
           player |-> opponent(g.player),
           move |-> g.move + 1,
           history |-> pushHistory(g).history,
           positionHistory |-> Append(g.positionHistory, boardHash(resolved.board)),
           gameOver |-> IF ~nAny THEN TRUE ELSE g.gameOver]

\* tryPlace once placeStone has returned resolved
tryPlaceWith(g, r, c, resolved) ==
  IF g.gameOver THEN g
  ELSE IF g.board[r][c] # EMPTY THEN g
  ELSE IF ~legalMask(g)[r][c] THEN g
  ELSE IF resolved.kind # "board" THEN pushHistory(g)
  ELSE LET nextForbid == Forbid(forbidSet(g).set \cup {boardHash(resolved.board)})
           wAny == any(computeLegalMoves(resolved.board, "WHITE", nextForbid))
           bAny == any(computeLegalMoves(resolved.board, "BLACK", nextForbid))
       IN [board |-> resolved.board,
           player |-> opponent(g.player),
           move |-> g.move + 1,
           history |-> pushHistory(g).history,
           positionHistory |-> Append(g.positionHistory, boardHash(resolved.board)),
           gameOver |-> IF ~wAny /\ ~bAny THEN TRUE ELSE g.gameOver]

tryPlaceStep(g, r, c) ==
  CHOOSE h \in {tryPlaceWith(g, r, c, resolved) :
                  resolved \in {placeStone(g.board, g.player, r, c, forbidSet(g))}} : TRUE

\* onPass without pushHistory
onPassStep_NoSnapshot(g) ==
  IF g.gameOver THEN g
  ELSE IF anyLegal(g) THEN g
  ELSE LET nextPlayer == opponent(g.player)
           oppAny == any(computeLegalMoves(g.board, nextPlayer, forbidSet(g)))
       IN [g EXCEPT
             !.move = g.move + 1,
             !.positionHistory = Append(g.positionHistory, boardHash(g.board)),
             !.gameOver = IF ~oppAny THEN TRUE ELSE g.gameOver,
             !.player = IF ~oppAny THEN g.player ELSE nextPlayer]

\* onPass without the anyLegal test
onPassStep_AlwaysAllowed(g) ==
  IF g.gameOver THEN g
  ELSE LET nextPlayer == opponent(g.player)
           oppAny == any(computeLegalMoves(g.board, nextPlayer, forbidSet(g)))
       IN [pushHistory(g) EXCEPT
             !.move = g.move + 1,
             !.positionHistory = Append(g.positionHistory, boardHash(g.board)),
             !.gameOver = IF ~oppAny THEN TRUE ELSE g.gameOver,
             !.player = IF ~oppAny THEN g.player ELSE nextPlayer]

onPassStep(g) ==
  IF g.gameOver THEN g
  ELSE IF anyLegal(g) THEN g
  ELSE LET nextPlayer == opponent(g.player)
           oppAny == any(computeLegalMoves(g.board, nextPlayer, forbidSet(g)))
       IN [pushHistory(g) EXCEPT
             !.move = g.move + 1,
             !.positionHistory = Append(g.positionHistory, boardHash(g.board)),
             !.gameOver = IF ~oppAny THEN TRUE ELSE g.gameOver,
             !.player = IF ~oppAny THEN g.player ELSE nextPlayer]

\* undo leaving positionHistory as it is
undoStep_KeepsPositions(g) ==
  IF Len(g.history) = 0 THEN g
  ELSE LET last == g.history[Len(g.history)]
       IN [board |-> cloneBoard(last.board),
           player |-> last.player,
           move |-> last.move,
           history |-> SubSeq(g.history, 1, Len(g.history) - 1),
           positionHistory |-> g.positionHistory,
           gameOver |-> FALSE]

\* undo: the updater of setHistory restores the last snapshot, drops the
\* last fingerprint (never the first) and clears gameOver
undoStep(g) ==
  IF Len(g.history) = 0 THEN g
  ELSE LET last == g.history[Len(g.history)]
       IN [board |-> cloneBoard(last.board),
           player |-> last.player,
           move |-> last.move,
           history |-> SubSeq(g.history, 1, Len(g.history) - 1),
           positionHistory |->
             IF Len(g.positionHistory) > 1
             THEN SubSeq(g.positionHistory, 1, Len(g.positionHistory) - 1)
             ELSE g.positionHistory,
           gameOver |-> FALSE]

onRestartStep(g) ==
  LET ib == makeInitialBoard
  IN [board |-> ib, player |-> START_PLAYER, move |-> 1, history |-> << >>,
      positionHistory |-> <<boardHash(ib)>>, gameOver |-> FALSE]

\* Games start at the fresh application or late in a game: FillScript is a
\* run of clicks, Black and White in turn, each filling its zone outwards
\* from its base, that leaves the corner and Black's last cell open
MaxMove == 70

ClickCells == CornerCells \cup {BlackLastCell}

FillScript ==
  <<
     <<7, 4>>, <<1, 5>>, <<6, 4>>, <<0, 5>>, <<6, 3>>, <<0, 3>>,
     <<6, 2>>, <<1, 3>>, <<7, 2>>, <<1, 4>>, <<7, 5>>, <<2, 5>>,
     <<6, 5>>, <<0, 2>>, <<5, 4>>, <<1, 2>>, <<5, 3>>, <<2, 3>>,
     <<5, 2>>, <<2, 4>>, <<6, 1>>, <<2, 6>>, <<7, 1>>, <<3, 5>>,
     <<7, 6>>, <<0, 1>>, <<6, 6>>, <<1, 1>>, <<5, 6>>, <<2, 1>>,
     <<5, 5>>, <<2, 2>>, <<4, 4>>, <<3, 3>>, <<4, 3>>, <<3, 4>>,
     <<4, 2>>, <<3, 7>>, <<5, 1>>, <<2, 7>>, <<5, 0>>, <<3, 6>>,
     <<6, 0>>, <<0, 0>>, <<7, 7>>, <<1, 0>>, <<6, 7>>, <<2, 0>>,
     <<5, 7>>, <<3, 1>>, <<4, 6>>, <<3, 2>>, <<4, 5>>, <<4, 7>>,
     <<4, 1>>, <<3, 0>>, <<4, 0>>
  >>

\* the cells of b from the i-th on, row by row, and the board of such a list
RECURSIVE boardCells(_, _)
boardCells(b, i) ==
  IF i = ROWS * COLS THEN << >>
  ELSE <<b[i \div COLS][i % COLS]>> \o boardCells(b, i + 1)

boardOfCells(t) == [r \in RowIdx |-> [c \in ColIdx |-> t[r * COLS + c + 1]]]

\* the state g with its board carried as its list of cells
withBoardCells(g) ==
  CHOOSE h \in {[g EXCEPT !.board = boardOfCells(t)] : t \in {boardCells(g.board, 0)}} : TRUE

\* the state after the clicks script[lo..hi], played as two halves
RECURSIVE PlayClicks(_, _, _, _)
PlayClicks(g, script, lo, hi) ==
  IF lo > hi THEN g
  ELSE IF lo = hi
  THEN CHOOSE h \in
         {withBoardCells(g2) :
            g2 \in {tryPlaceStep(g, script[lo][1], script[lo][2])}} : TRUE
  ELSE CHOOSE h \in
         {PlayClicks(m, script, ((lo + hi) \div 2) + 1, hi) :
            m \in {PlayClicks(g, script, lo, (lo + hi) \div 2)}} : TRUE

\* the state after the clicks script[i..]
PlayScript(g, script, i) == PlayClicks(g, script, i, Len(script))

Openings == {<< >>, FillScript}

GameInit ==
  /\ \E s \in Openings :
       \E g \in {PlayScript(AppInit, s, 1)} :
         board = g.board /\ app = AppRest(g)
  /\ call = NoCall
  /\ ret = Null

\* a click on cell (r, c); call and ret record the placeStone call it makes
tryPlace(r, c) ==
  /\ app.move < MaxMove
  /\ \E F \in {forbidSet(AppState)} :
     \E resolved \in {placeStone(board, app.player, r, c, F)} :
     \E g \in {tryPlaceWith(AppState, r, c, resolved)} :
        /\ board' = g.board
        /\ app' = AppRest(g)
        /\ IF Len(g.history) > Len(app.history)
           THEN /\ call' = [op |-> "placeStone", player |-> app.player, r |-> r, c |-> c,
                            forbid |-> F, after |-> forbidAfterCall(F)]
                /\ ret' = resolved
           ELSE UNCHANGED <<call, ret>>

\* the pass button; call and ret record the computeLegalMoves call for the
\* opponent that an accepted pass makes
onPass ==
  /\ app.move < MaxMove
  /\ \E F \in {forbidSet(AppState)} :
     \E g \in {onPassStep(AppState)} :
        /\ board' = g.board
        /\ app' = AppRest(g)
        /\ IF g.move > app.move
           THEN /\ call' = [NoCall EXCEPT !.op = "computeLegalMoves",
                                          !.player = opponent(app.player),
                                          !.forbid = F, !.after = forbidAfterCall(F)]
                /\ ret' = Mask(computeLegalMoves(board, opponent(app.player), F))
           ELSE UNCHANGED <<call, ret>>

GameNext ==
  \/ \E rc \in ClickCells : tryPlace(rc[1], rc[2])
  \/ onPass

GameSpec == GameInit /\ [][GameNext]_vars

----------------------------------------------------------------------------
(* App with all its buttons: clicks, pass, undo and restart *)

\* undo is followed back to the end of the opening script, not into it
UndoFloor == Len(FillScript)

\* the undo button; nothing happens on an empty undo history
undo ==
  \E g \in {undoStep(AppState)} :
    /\ Len(app.history) # UndoFloor
    /\ board' = g.board
    /\ app' = AppRest(g)
    /\ IF Len(g.history) < Len(app.history)
       THEN call' = [NoCall EXCEPT !.op = "undo"] /\ ret' = Null
       ELSE UNCHANGED <<call, ret>>

\* the restart button
onRestart ==
  \E g \in {onRestartStep(AppState)} :
    /\ board' = g.board
    /\ app' = AppRest(g)
    /\ call' = [NoCall EXCEPT !.op = "onRestart"]
    /\ ret' = Null

AppNext ==
  \/ \E rc \in ClickCells : tryPlace(rc[1], rc[2])
  \/ onPass
  \/ undo
  \/ onRestart

AppSpec == GameInit /\ [][AppNext]_vars

----------------------------------------------------------------------------
(* The opening on the engine: stones placed, without a set, on the cells    *)
(* next to the two bases of the initial board                              *)

MaxOpening == 2

BaseCell(p) == <<playerBasePos(p).r, playerBasePos(p).c>>

\* the cells next to player's base
BaseNeighbors(p) ==
  {neighbors(BaseCell(p)[1], BaseCell(p)[2])[i] :
     i \in 1 .. Len(neighbors(BaseCell(p)[1], BaseCell(p)[2]))}

OpeningCells == BaseNeighbors("WHITE") \cup BaseNeighbors("BLACK")

StonesOn(b) ==
  Cardinality({x \in OpeningCells : b[x[1]][x[2]] \in Stones})

\* placeStone(current, p, r, c) while fewer than MaxOpening stones stand
OpeningStone ==
  \E p \in Player, rc \in OpeningCells :
    /\ StonesOn(Current) < MaxOpening
    /\ \E cur \in {Current} :
       \E res \in {placeStone(cur, p, rc[1], rc[2], NoForbid)} :
         IF res.kind = "board"
         THEN /\ board' = callerBoardAfter(cur, placeStoneWrites(cur, p, rc[1], rc[2], NoForbid))
              /\ call' = [op |-> "placeStone", player |-> p, r |-> rc[1], c |-> rc[2],
                          forbid |-> NoForbid, after |-> forbidAfterCall(NoForbid)]
              /\ ret' = res
              /\ UNCHANGED app
         ELSE UNCHANGED vars

OpeningNext == OpeningStone

OpeningSpec == PlayInit /\ [][OpeningNext]_vars

----------------------------------------------------------------------------
(* The search of bfsFromBase pass by pass, and neighbors.  ret holds the    *)
(* locals vis, q and qi of the running search between two passes of the    *)
(* while loop, and the mask once the function has returned.                *)

\* the ring of White stones closing the corner off from Black
RingBoard ==
  SetupBoard([x \in SetupCells |-> IF x \in RingCells THEN WHITE_STONE ELSE EMPTY])

SearchBoards == {makeInitialBoard, RingBoard} \cup EndBoards

SearchInit ==
  /\ board \in SearchBoards
  /\ call = NoCall
  /\ ret = Null
  /\ AppIdle

\* lines 77-84: vis and q hold the base position, qi = 0
BfsBegin ==
  \E p \in Player, mode \in {"stones+empties", "emptiesOnly"} :
    /\ call = NoCall
    /\ call' = [op |-> "bfsFromBase", player |-> p, r |-> 0, c |-> 0,
                forbid |-> NoForbid, after |-> NoForbid, mode |-> mode]
    /\ ret' = Search(bfsStart(p))
    /\ UNCHANGED <<board, app>>

\* one pass of while (qi < q.length)
BfsPass ==
  /\ ret.kind = "search"
  /\ ret.st.qi < Len(ret.st.q)
  /\ ret' = Search(bfsStep(board, call.player, call.mode, ret.st))
  /\ UNCHANGED <<board, call, app>>

\* the loop has ended: return vis
BfsReturn ==
  /\ ret.kind = "search"
  /\ ret.st.qi >= Len(ret.st.q)
  /\ ret' = Mask(ret.st.vis)
  /\ UNCHANGED <<board, call, app>>

\* neighbors(r, c) on a cell of the grid
CallNeighbors ==
  \E r \in RowIdx, c \in ColIdx :
    /\ call = NoCall
    /\ call' = [NoCall EXCEPT !.op = "neighbors", !.r = r, !.c = c]
    /\ ret' = Cells(neighbors(r, c))
    /\ UNCHANGED <<board, app>>

\* The same search run in another order: the direction table is read in the
\* order given by a permutation of its six positions, and the next cell is
\* taken from the front of the pending cells (breadth-first) or from their
\* end (depth-first).
DirIdx == 1 .. 6

Rotation(k) == [i \in DirIdx |-> ((i + k - 1) % 6) + 1]
Reversed(order) == [i \in DirIdx |-> order[7 - i]]
Swapped(i, j) == [k \in DirIdx |-> IF k = i THEN j ELSE IF k = j THEN i ELSE k]

\* table order, its rotations, their reversals, and every exchange of two
\* directions
DirOrders ==
  {Rotation(k) : k \in 0 .. 5}
    \cup {Reversed(Rotation(k)) : k \in 0 .. 5}
    \cup {Swapped(i, j) : i, j \in DirIdx}

neighborsInOrder(r, c, order) ==
  LET dirs == IF c % 2 = 0 THEN EVEN_Q_DIRS ELSE ODD_Q_DIRS
      cand == [i \in DirIdx |-> <<r + dirs[order[i]][2], c + dirs[order[i]][1]>>]
  IN SelectSeq(cand, LAMBDA p : inBounds(p[1], p[2]))

\* one pass: q holds the cells still to be expanded
searchStep(b, player, mode, order, lifo, st) ==
  IF Len(st.q) = 0 THEN st
  ELSE LET cur == IF lifo THEN st.q[Len(st.q)] ELSE Head(st.q)
           rest == IF lifo THEN SubSeq(st.q, 1, Len(st.q) - 1) ELSE Tail(st.q)
       IN bfsExpand(b, player, mode, neighborsInOrder(cur[1], cur[2], order), 1,
                    [st EXCEPT !.q = rest])

RECURSIVE searchLoop(_, _, _, _, _, _, _)
searchLoop(b, player, mode, order, lifo, st, n) ==
  IF n = 0 THEN st
  ELSE IF n = 1 THEN searchStep(b, player, mode, order, lifo, st)
  ELSE LET half == searchLoop(b, player, mode, order, lifo, st, n \div 2)
       IN IF Len(half.q) = 0 THEN half
          ELSE searchLoop(b, player, mode, order, lifo, half, n - (n \div 2))

searchInOrder(b, player, mode, order, lifo) ==
  LET end == searchLoop(b, player, mode, order, lifo, bfsStart(player), ROWS * COLS)
  IN (CHOOSE st \in {end} : Len(st.q) = 0).vis

CallSearchInOrder ==
  \E p \in Player, mode \in {"stones+empties", "emptiesOnly"},
     order \in DirOrders, lifo \in BOOLEAN :
    /\ call = NoCall
    /\ call' = [op |-> "searchInOrder", player |-> p, r |-> 0, c |-> 0,
                forbid |-> NoForbid, after |-> NoForbid, mode |-> mode,
                order |-> order, lifo |-> lifo]
    /\ ret' = Mask(searchInOrder(board, p, mode, order, lifo))
    /\ UNCHANGED <<board, app>>

SearchNext ==
  \/ BfsBegin
  \/ BfsPass
  \/ BfsReturn
  \/ CallNeighbors
  \/ CallSearchInOrder

SearchSpec == SearchInit /\ [][SearchNext]_vars

----------------------------------------------------------------------------
(* Helpers of the properties *)

IsPlaceCall == call.op = "placeStone"
InBoundsCall == IsPlaceCall /\ inBounds(call.r, call.c)
OnEmptyCall == InBoundsCall /\ board[call.r][call.c] = EMPTY

\* the cells adjacent to cell x
Adjacent(x) ==
  {NeighborTable[x[1]][x[2]][i] : i \in 1 .. Len(NeighborTable[x[1]][x[2]])}

\* the cells joined to the cells of seen by a chain of adjacent cells whose
\* value on b is in allowed (least fixed point, by rounds)
RECURSIVE Closure(_, _, _, _)
Closure(b, allowed, seen, frontier) ==
  IF frontier = {} THEN seen
  ELSE LET new == {n \in UNION {Adjacent(x) : x \in frontier} :
                     n \notin seen /\ b[n[1]][n[2]] \in allowed}
       IN Closure(b, allowed, seen \cup new, new)

\* (r, c) is joined to player's base by a path of player's stones and
\* empty cells
ConnectedToBase(b, player, r, c) ==
  LET bp == <<playerBasePos(player).r, playerBasePos(player).c>>
  IN <<r, c>> \in Closure(b, {EMPTY, playerStone(player)}, {bp}, {bp})

\* the mask value computeLegalMoves gives for the cell of the current call
LegalAtCall == computeLegalMoves(board, call.player, call.forbid)[call.r][call.c]

\* what the same placeStone call returns when no set is supplied
UnfilteredResult == placeStone(board, call.player, call.r, call.c, NoForbid)

----------------------------------------------------------------------------
(* Properties *)

\* C1: for an in-bounds coordinate placeStone returns a board exactly when
\* computeLegalMoves (same board, player and forbidden set) marks the cell
\* true, and otherwise returns null.
C1_AcceptedIffLegal ==
  InBoundsCall =>
    /\ (ret.kind = "board") <=> LegalAtCall
    /\ (ret.kind # "board") => ret = Null

\* a placement accepted with a forbidden set supplied
C1_Witness ==
  /\ OnEmptyCall /\ call.forbid.has
  /\ ret.kind = "board"
  /\ LegalAtCall

\* C2: an accepted placement returns resolveCaptures of the input board with
\* the player's stone written at (r, c); away from (r, c) a cell differs from
\* the input only by being a stone that became Empty.
C2_AcceptedIsPlacedResolved ==
  (IsPlaceCall /\ ret.kind = "board") =>
    /\ ret.board = resolveCaptures([board EXCEPT ![call.r][call.c] = playerStone(call.player)])
    /\ \A r \in RowIdx, c \in ColIdx :
         (<<r, c>> # <<call.r, call.c>> /\ ret.board[r][c] # board[r][c]) =>
           (board[r][c] \in Stones /\ ret.board[r][c] = EMPTY)

\* an accepted placement that captured a stone
C2_Witness ==
  /\ IsPlaceCall /\ ret.kind = "board"
  /\ ret.board[call.r][call.c] = playerStone(call.player)
  /\ \E x \in SetupCells : board[x[1]][x[2]] \in Stones /\ ret.board[x[1]][x[2]] = EMPTY

\* C3: legality implies survival: where computeLegalMoves reports true,
\* writing the stone and resolving captures leaves the stone at (r, c).
C3_LegalImpliesSurvival ==
  (InBoundsCall /\ LegalAtCall) =>
    PlacedResolved(board, call.player, call.r, call.c)[call.r][call.c] = playerStone(call.player)

\* a legal cell next to an enemy stone, whose stone stays after resolution
C3_Witness ==
  /\ OnEmptyCall /\ LegalAtCall
  /\ \E x \in Adjacent(<<call.r, call.c>>) :
       board[x[1]][x[2]] = playerStone(opponent(call.player))
  /\ PlacedResolved(board, call.player, call.r, call.c)[call.r][call.c] = playerStone(call.player)

\* C4: repetition rejection: on an empty cell, when the forbidden set holds
\* the fingerprint of the placed-and-resolved board, placeStone returns null
\* and computeLegalMoves marks the cell false.
C4_RepetitionRejected ==
  (/\ OnEmptyCall /\ call.forbid.has
   /\ boardHash(PlacedResolved(board, call.player, call.r, call.c)) \in call.forbid.set) =>
    (ret = Null /\ ~LegalAtCall)

\* a move that is legal without the set and is refused for repetition
C4_Witness ==
  /\ OnEmptyCall /\ call.forbid.has
  /\ boardHash(PlacedResolved(board, call.player, call.r, call.c)) \in call.forbid.set
  /\ computeLegalMoves(board, call.player, NoForbid)[call.r][call.c]
  /\ ret = Null

\* C5: the forbidden set only filters: if the call without a set returns
\* board X, the call with F returns X when boardHash(X) is not in F and null
\* when it is; if the call without a set returns null, so does the call with F.
C5_ForbidOnlyFilters ==
  (IsPlaceCall /\ call.forbid.has) =>
    /\ UnfilteredResult.kind = "board" =>
         ret = (IF boardHash(UnfilteredResult.board) \in call.forbid.set
                THEN Null ELSE UnfilteredResult)
    /\ UnfilteredResult = Null => ret = Null

\* a move refused only for repetition: accepted when no set is supplied
C5_Witness ==
  /\ IsPlaceCall /\ call.forbid.has
  /\ UnfilteredResult.kind = "board"
  /\ boardHash(UnfilteredResult.board) \in call.forbid.set
  /\ ret = Null

\* the placement at the call's cell removes an adjacent enemy stone, and
\* once that stone is gone the placed stone is joined to the mover's base
CaptureWouldFreeCell ==
  LET after == PlacedResolved(board, call.player, call.r, call.c)
      cleared == [after EXCEPT ![call.r][call.c] = playerStone(call.player)]
  IN /\ \E x \in Adjacent(<<call.r, call.c>>) :
          /\ board[x[1]][x[2]] = playerStone(opponent(call.player))
          /\ after[x[1]][x[2]] = EMPTY
     /\ bfsFromBase(cleared, call.player, "stones+empties")[call.r][call.c]

\* C6: the capture-aware policy admits what the simple policy forbids: an
\* empty cell not in the mover's stones+empties mask, whose placement removes
\* the blocking enemy group, is marked legal, is accepted by placeStone, and
\* the placed stone stays on the board.
C6_CaptureAwareAccepts ==
  (/\ OnEmptyCall /\ ~call.forbid.has
   /\ ~bfsFromBase(board, call.player, "stones+empties")[call.r][call.c]
   /\ CaptureWouldFreeCell) =>
    /\ LegalAtCall
    /\ ret.kind = "board"
    /\ ret.board[call.r][call.c] = playerStone(call.player)

\* C7: without a forbidden set the mask is true exactly at the Empty cells
\* that, with the player's stone written there, are joined to the player's
\* base by a path of the player's stones and empty cells; every non-empty
\* cell is false.
C7_LegalIffEmptyAndConnected ==
  (call.op = "computeLegalMoves") =>
    \A r \in RowIdx, c \in ColIdx :
      ret.board[r][c] <=>
        (/\ board[r][c] = EMPTY
         /\ ConnectedToBase([board EXCEPT ![r][c] = playerStone(call.player)],
                            call.player, r, c))

\* a mask with a true cell, an empty cell marked false and stones on the board
C7_Witness ==
  /\ call.op = "computeLegalMoves"
  /\ \E x \in SetupCells : board[x[1]][x[2]] = EMPTY /\ ~ret.board[x[1]][x[2]]
  /\ \E x \in SetupCells : board[x[1]][x[2]] = EMPTY /\ ret.board[x[1]][x[2]]
  /\ \E x \in SetupCells : board[x[1]][x[2]] \in Stones /\ ~ret.board[x[1]][x[2]]

\* C8: placeStone on an out-of-bounds coordinate returns null as an ordinary
\* result (nothing is thrown).
C8_OutOfBoundsReturnsNull ==
  (IsPlaceCall /\ ~inBounds(call.r, call.c)) => ret = Null

\* C9: placeStone on an in-bounds cell that is not Empty returns null and
\* leaves the board as it was, for both players and any forbidden set.
C9_OccupiedRejected ==
  [][(/\ call'.op = "placeStone" /\ inBounds(call'.r, call'.c)
      /\ board[call'.r][call'.c] # EMPTY)
     => (ret' = Null /\ board' = board)]_vars

\* a call on a stone or on the White base, with a set supplied, refused
C9_Witness ==
  /\ InBoundsCall /\ call.forbid.has
  /\ board[call.r][call.c] \in Stones \cup {WHITE_BASE}
  /\ ret = Null

\* C10: resolveCaptures is simultaneous: the result is Empty at the White
\* stones outside White's mask of the input and at the Black stones outside
\* Black's mask of the input, and equals the input everywhere else.
C10_SimultaneousCapture ==
  (call.op = "resolveCaptures") =>
    LET wReach == bfsFromBase(board, "WHITE", "stones+empties")
        bReach == bfsFromBase(board, "BLACK", "stones+empties")
    IN \A r \in RowIdx, c \in ColIdx :
         IF \/ board[r][c] = WHITE_STONE /\ ~wReach[r][c]
            \/ board[r][c] = BLACK_STONE /\ ~bReach[r][c]
         THEN ret.board[r][c] = EMPTY /\ ret.kind = "board"
         ELSE ret.board[r][c] = board[r][c]

\* a board on which removing White's dead stones first and then judging
\* Black gives another result
C10_Witness ==
  /\ call.op = "resolveCaptures"
  /\ ret.board # board
  /\ ret.board # resolveCaptures_Sequential(board)

\* the cells holding value v on b
CellsHolding(b, v) == {x \in RowIdx \X ColIdx : b[x[1]][x[2]] = v}

\* the cells joined to player's base by a chain of cells with a value in allowed
JoinedToBase(b, player, allowed) ==
  LET bp == <<playerBasePos(player).r, playerBasePos(player).c>>
  IN Closure(b, allowed, {bp}, {bp})

\* C11: capture resolution is idempotent: resolveCaptures of a resolved board
\* is that board, cell for cell, and after one pass no stone is cut off from
\* its own base.
C11_ResolveIdempotent ==
  (call.op = "resolveCaptures") =>
    /\ resolveCaptures(ret.board) = ret.board
    /\ \A p \in Player :
         CellsHolding(ret.board, playerStone(p))
           \subseteq JoinedToBase(ret.board, p, {EMPTY, playerStone(p)})

\* a pass that removed a stone and left another stone standing
C11_Witness ==
  /\ call.op = "resolveCaptures"
  /\ \E x \in SetupCells : board[x[1]][x[2]] \in Stones /\ ret.board[x[1]][x[2]] = EMPTY
  /\ \E x \in SetupCells : ret.board[x[1]][x[2]] \in Stones

\* C16: bothNoMoves(board) is true exactly when the mask of computeLegalMoves
\* without a forbidden set is false everywhere for White and for Black.
C16_BothNoMovesIffNoLegal ==
  (call.op = "bothNoMoves") =>
    LET wMask == computeLegalMoves(board, "WHITE", NoForbid)
        bMask == computeLegalMoves(board, "BLACK", NoForbid)
    IN ret.value <=>
         \A r \in RowIdx, c \in ColIdx : ~wMask[r][c] /\ ~bMask[r][c]

\* a board on which neither player has a move, reported as such
C16_Witness ==
  /\ call.op = "bothNoMoves"
  /\ ret.value
  /\ CellsHolding(board, EMPTY) = {}

\* C17: computeAreaScore counts for each player that player's stones plus the
\* Empty cells joined through Empty cells to that player's base and not to
\* the opponent's; cells joined to both bases or to neither count for nobody
\* and the base cells are counted nowhere.
C17_AreaScoreCounts ==
  (call.op = "computeAreaScore") =>
    LET wJoin == JoinedToBase(board, "WHITE", {EMPTY})
        bJoin == JoinedToBase(board, "BLACK", {EMPTY})
        empties == CellsHolding(board, EMPTY)
        wOnly == {x \in empties : x \in wJoin /\ x \notin bJoin}
        bOnly == {x \in empties : x \in bJoin /\ x \notin wJoin}
        wSt == CellsHolding(board, WHITE_STONE)
        bSt == CellsHolding(board, BLACK_STONE)
    IN /\ ret.score.breakdown.wStones = Cardinality(wSt)
       /\ ret.score.breakdown.bStones = Cardinality(bSt)
       /\ ret.score.breakdown.wTerr = Cardinality(wOnly)
       /\ ret.score.breakdown.bTerr = Cardinality(bOnly)
       /\ ret.score.white = Cardinality(wSt) + Cardinality(wOnly)
       /\ ret.score.black = Cardinality(bSt) + Cardinality(bOnly)

\* a board with territory for each player and an empty cell joined to
\* neither base
C17_Witness ==
  /\ call.op = "computeAreaScore"
  /\ ret.score.breakdown.wTerr > 0
  /\ ret.score.breakdown.bTerr > 0
  /\ \E x \in CellsHolding(board, EMPTY) :
       /\ x \notin JoinedToBase(board, "WHITE", {EMPTY})
       /\ x \notin JoinedToBase(board, "BLACK", {EMPTY})

\* C18: score decomposition: white = wStones + wTerr, black = bStones + bTerr,
\* and no Empty cell is counted in both wTerr and bTerr: the two territory
\* counts add up to the number of Empty cells in exactly one emptiesOnly mask.
C18_ScoreDecomposition ==
  (call.op = "computeAreaScore") =>
    LET wEmpty == bfsFromBase(board, "WHITE", "emptiesOnly")
        bEmpty == bfsFromBase(board, "BLACK", "emptiesOnly")
        one == {x \in CellsHolding(board, EMPTY) :
                  wEmpty[x[1]][x[2]] # bEmpty[x[1]][x[2]]}
        bd == ret.score.breakdown
    IN /\ ret.score.white = bd.wStones + bd.wTerr
       /\ ret.score.black = bd.bStones + bd.bTerr
       /\ bd.wTerr + bd.bTerr = Cardinality(one)

\* a score made of stones and of territory, on a board where some empty
\* cells are in both masks or in neither
C18_Witness ==
  /\ call.op = "computeAreaScore"
  /\ ret.score.breakdown.wStones > 0 /\ ret.score.breakdown.wTerr > 0
  /\ ret.score.white > ret.score.breakdown.wStones
  /\ ret.score.breakdown.wTerr + ret.score.breakdown.bTerr
       < Cardinality(CellsHolding(board, EMPTY))

ProbeCells == {<<0, 0>>, <<0, 7>>, <<7, 0>>, <<7, 7>>, <<0, 4>>, <<7, 3>>, <<3, 3>>}
HashProbes(b) ==
  SetupBoards \cup EndBoards
    \cup {[b EXCEPT ![x[1]][x[2]] = v] : x \in ProbeCells, v \in Cell}

\* C20: fingerprinting is exact: boardHash gives two boards the same string
\* exactly when they hold the same value at every coordinate.
C20_HashExact ==
  (call.op = "boardHash") =>
    \A b2 \in HashProbes(board) :
      (boardHash(b2) = ret.hash) <=>
        (\A r \in RowIdx, c \in ColIdx : b2[r][c] = board[r][c])

\* a board differing from the hashed one in a single cell, with another hash
C20_Witness ==
  /\ call.op = "boardHash"
  /\ \E b2 \in HashProbes(board) :
       /\ Cardinality({x \in RowIdx \X ColIdx : b2[x[1]][x[2]] # board[x[1]][x[2]]}) = 1
       /\ boardHash(b2) # ret.hash

\* each base value sits at its own position and nowhere else
BasesInPlace(b) ==
  \A r \in RowIdx, c \in ColIdx :
    /\ (b[r][c] = WHITE_BASE) <=> (r = WHITE_BASE_POS.r /\ c = WHITE_BASE_POS.c)
    /\ (b[r][c] = BLACK_BASE) <=> (r = BLACK_BASE_POS.r /\ c = BLACK_BASE_POS.c)

\* C12: base invariance: on the initial board and on every board reached by
\* accepted placeStone calls (either player, with or without a set) WhiteBase
\* is at WHITE_BASE_POS, BlackBase at BLACK_BASE_POS and no other cell holds a
\* base value; resolveCaptures changes neither base cell.
C12_BasesInvariant ==
  /\ BasesInPlace(Current)
  /\ LET res == resolveCaptures(Current)
     IN /\ res[WHITE_BASE_POS.r][WHITE_BASE_POS.c] = WHITE_BASE
        /\ res[BLACK_BASE_POS.r][BLACK_BASE_POS.c] = BLACK_BASE

\* a board reached by placements of both players, the last one made with a
\* set supplied
C12_Witness ==
  /\ call.op = "placeStone" /\ ret.kind = "board" /\ call.forbid.has
  /\ CellsHolding(Current, WHITE_STONE) # {}
  /\ CellsHolding(Current, BLACK_STONE) # {}
  /\ BasesInPlace(Current)

\* C13: after every accepted move no dead stone remains: on every board
\* reached by accepted placeStone calls each White stone is in White's
\* stones+empties mask and each Black stone in Black's, and resolveCaptures
\* returns the board unchanged.
C13_NoDeadStoneRemains ==
  LET wReach == bfsFromBase(Current, "WHITE", "stones+empties")
      bReach == bfsFromBase(Current, "BLACK", "stones+empties")
  IN /\ \A x \in CellsHolding(Current, WHITE_STONE) : wReach[x[1]][x[2]]
     /\ \A x \in CellsHolding(Current, BLACK_STONE) : bReach[x[1]][x[2]]
     /\ \A r \in RowIdx, c \in ColIdx : resolveCaptures(Current)[r][c] = Current[r][c]

\* an accepted placement that removed a stone, other stones staying
C13_Witness ==
  /\ call.op = "placeStone" /\ ret.kind = "board"
  /\ \E x \in InnerCells : board[x[1]][x[2]] \in Stones /\ Current[x[1]][x[2]] = EMPTY
  /\ Cardinality(CellsHolding(Current, WHITE_STONE) \cup CellsHolding(Current, BLACK_STONE)) >= 2

\* C14: no position repeats: in a game of App, where every placement goes
\* through placeStone with the fingerprints of all boards so far and every
\* accepted board's fingerprint is added, the board set by an accepted
\* placement differs from every earlier board of the game.
C14_NoPositionRepeats ==
  (call.op = "placeStone" /\ ret.kind = "board") =>
    /\ \A i \in 1 .. Len(app.history) : app.history[i].board # board
    /\ \A i \in 1 .. Len(app.positionHistory) - 1 :
         app.positionHistory[i] # boardHash(board)

\* an accepted placement, at least the third move of the game, that captured
C14_Witness ==
  /\ call.op = "placeStone" /\ ret.kind = "board"
  /\ Len(app.history) >= 3
  /\ Len(app.positionHistory) = Len(app.history) + 1
  /\ \E x \in ClickCells :
       /\ app.history[Len(app.history)].board[x[1]][x[2]] \in Stones
       /\ board[x[1]][x[2]] = EMPTY

\* a click on (r, c) is taken up as a placement
PlacementAccepted(r, c) == tryPlaceStep(AppState, r, c).move = app.move + 1

NoPlacementAccepted == \A rc \in ClickCells : ~PlacementAccepted(rc[1], rc[2])

TraversableValues(player, mode) ==
  IF mode = "stones+empties"
  THEN {EMPTY, playerBase(player), playerStone(player)}
  ELSE {EMPTY}

\* C21: bfsFromBase(board, player, mode) is true at a cell exactly when the
\* cell is the player's base position or joined to it by a chain of
\* neighbouring cells each traversable in that mode (Empty, own base or own
\* stone for stones+empties; Empty only for emptiesOnly); opponent stones and
\* the opponent base are never marked, and no stone is marked in emptiesOnly.
C21_BfsMaskIsClosure ==
  (call.op = "bfsFromBase" /\ ret.kind = "mask") =>
    LET joined == JoinedToBase(board, call.player, TraversableValues(call.player, call.mode))
        opp == opponent(call.player)
    IN /\ \A r \in RowIdx, c \in ColIdx : ret.board[r][c] <=> <<r, c>> \in joined
       /\ \A x \in CellsHolding(board, playerStone(opp)) \cup CellsHolding(board, playerBase(opp)) :
            ~ret.board[x[1]][x[2]]
       /\ call.mode = "emptiesOnly" =>
            \A x \in CellsHolding(board, WHITE_STONE) \cup CellsHolding(board, BLACK_STONE) :
              ~ret.board[x[1]][x[2]]

\* a stones+empties search that walked through an own stone and left an
\* empty cell behind opponent stones unmarked
C21_Witness ==
  /\ call.op = "bfsFromBase" /\ ret.kind = "mask"
  /\ call.mode = "stones+empties"
  /\ \E x \in CellsHolding(board, playerStone(call.player)) : ret.board[x[1]][x[2]]
  /\ \E x \in CellsHolding(board, EMPTY) : ~ret.board[x[1]][x[2]]
  /\ CellsHolding(board, playerStone(opponent(call.player))) # {}

\* the cells adjacent to (r, c) in the even-q layout: the column neighbours,
\* the row neighbours, and the two diagonal cells of the row below for an
\* even column, of the row above for an odd one
EvenQAdjacent(r, c) ==
  {x \in {<<r - 1, c>>, <<r + 1, c>>, <<r, c - 1>>, <<r, c + 1>>}
         \cup (IF c % 2 = 0 THEN {<<r + 1, c - 1>>, <<r + 1, c + 1>>}
                            ELSE {<<r - 1, c - 1>>, <<r - 1, c + 1>>}) :
     x[1] \in RowIdx /\ x[2] \in ColIdx}

\* hexCenter of App with MARGIN and the half cell taken off: x in units of
\* HEX_R / 2 (a column is 0.75 * HEX_W = 3 units wide), y in units of
\* HEX_H / 2 (even columns are drawn half a cell lower)
hexCenter(r, c) == [x |-> 3 * c, y |-> 2 * r + (IF c % 2 = 0 THEN 1 ELSE 0)]

\* two drawn hexagons share an edge: their centres are HEX_H apart, one
\* above the other or in neighbouring columns half a cell apart
SharesEdge(a, b) ==
  \/ a.x = b.x /\ (a.y - b.y = 2 \/ b.y - a.y = 2)
  \/ (a.x - b.x = 3 \/ b.x - a.x = 3) /\ (a.y - b.y = 1 \/ b.y - a.y = 1)

\* C22: for every in-bounds (r, c), neighbors(r, c) lists, without
\* duplicates and in bounds only, exactly the cells adjacent to (r, c) in the
\* even-q layout (even columns shifted down, as hexCenter draws them): at
\* most six cells.
C22_NeighborsAreEvenQ ==
  (call.op = "neighbors") =>
    /\ {ret.cells[i] : i \in 1 .. Len(ret.cells)} = EvenQAdjacent(call.r, call.c)
    /\ {ret.cells[i] : i \in 1 .. Len(ret.cells)} =
         {x \in RowIdx \X ColIdx :
            SharesEdge(hexCenter(call.r, call.c), hexCenter(x[1], x[2]))}
    /\ \A i, j \in 1 .. Len(ret.cells) : ret.cells[i] = ret.cells[j] => i = j
    /\ \A i \in 1 .. Len(ret.cells) : inBounds(ret.cells[i][1], ret.cells[i][2])
    /\ Len(ret.cells) <= 6

\* an odd-column cell on the top edge: its two upper diagonal cells are
\* outside the grid
C22_Witness ==
  /\ call.op = "neighbors"
  /\ call.r = 0 /\ call.c % 2 = 1
  /\ Len(ret.cells) = 3

\* the queue, the visited grid and the read index between two passes
QueueInOrder(st) ==
  /\ \A i, j \in 1 .. Len(st.q) : st.q[i] = st.q[j] => i = j
  /\ \A i \in 1 .. Len(st.q) : st.vis[st.q[i][1]][st.q[i][2]]
  /\ Len(st.q) <= ROWS * COLS
  /\ st.qi <= Len(st.q)

\* C27: bfsFromBase terminates and enqueues each cell at most once: between
\* any two passes of its loop the queue holds no coordinate twice, every
\* queued cell is marked visited and the queue has at most ROWS*COLS
\* entries; each pass moves the read index one further along the queue and
\* takes nothing off it, so the loop ends after at most ROWS*COLS passes.
C27_SearchQueueBounded ==
  /\ [](ret.kind = "search" => QueueInOrder(ret.st))
  /\ [][(ret.kind = "search" /\ ret'.kind = "search") =>
          /\ ret'.st.qi = ret.st.qi + 1
          /\ SubSeq(ret'.st.q, 1, Len(ret.st.q)) = ret.st.q]_vars

\* a search that has read its whole queue, of more than half the grid
C27_Witness ==
  /\ ret.kind = "search"
  /\ ret.st.qi = Len(ret.st.q)
  /\ 2 * Len(ret.st.q) > ROWS * COLS
  /\ board # makeInitialBoard

\* C28: the reachability mask does not depend on the search order: for
\* every board, player and mode, the search run with the direction tables
\* read in another order, breadth-first or depth-first, marks exactly the
\* cells bfsFromBase marks.
C28_MaskIsOrderFree ==
  (call.op = "searchInOrder") =>
    LET mask == bfsFromBase(board, call.player, call.mode)
    IN \A r \in RowIdx, c \in ColIdx : ret.board[r][c] = mask[r][c]

\* a depth-first search with the table read backwards, on a board where
\* part of the grid is out of the player's reach
C28_Witness ==
  /\ call.op = "searchInOrder"
  /\ call.lifo
  /\ call.order = Reversed(Rotation(0))
  /\ \E x \in CellsHolding(board, EMPTY) : ~ret.board[x[1]][x[2]]
  /\ \E x \in CellsHolding(board, EMPTY) : ret.board[x[1]][x[2]]

\* the layout README.md and the rules comment of App describe
DOC_ROWS == 10
DOC_COLS == 10
DOC_BLACK_BASE_ROW == 9
DOC_BLACK_BASE_COL == 5

\* C23: makeInitialBoard returns the documented layout: a 10x10 board with
\* WhiteBase at (0,4), BlackBase at (9,5) and every other cell Empty.
C23_DocumentedLayout ==
  (call.op = "none" /\ board = makeInitialBoard) =>
    /\ ROWS = DOC_ROWS /\ COLS = DOC_COLS
    /\ CellsHolding(board, WHITE_BASE) = {<<0, 4>>}
    /\ CellsHolding(board, BLACK_BASE) = {<<DOC_BLACK_BASE_ROW, DOC_BLACK_BASE_COL>>}
    /\ Cardinality(CellsHolding(board, EMPTY)) = DOC_ROWS * DOC_COLS - 2

\* C24: opening play: on the initial board bothNoMoves is false and Black has
\* a legal move among the neighbours of its base; after Black has placed on
\* such a cell the new board's fingerprint differs from the initial one and
\* White has a legal move among the neighbours of its base.
C24_OpeningPlay ==
  /\ (board = makeInitialBoard) =>
       /\ ~bothNoMoves(board)
       /\ \E x \in BaseNeighbors("BLACK") :
            computeLegalMoves(board, "BLACK", NoForbid)[x[1]][x[2]]
  /\ (/\ call.op = "placeStone" /\ call.player = "BLACK"
      /\ board = makeInitialBoard
      /\ <<call.r, call.c>> \in BaseNeighbors("BLACK")) =>
       /\ ret.kind = "board"
       /\ boardHash(ret.board) # boardHash(makeInitialBoard)
       /\ \E x \in BaseNeighbors("WHITE") :
            computeLegalMoves(ret.board, "WHITE", NoForbid)[x[1]][x[2]]

\* Black has opened next to its base
C24_Witness ==
  /\ call.op = "placeStone" /\ call.player = "BLACK"
  /\ board = makeInitialBoard
  /\ <<call.r, call.c>> \in BaseNeighbors("BLACK")
  /\ ret.kind = "board"
  /\ ret.board[call.r][call.c] = BLACK_STONE

\* the state record of App made of a board and the rest
AppRecord(b, a) ==
  [board |-> b, player |-> a.player, move |-> a.move, history |-> a.history,
   positionHistory |-> a.positionHistory, gameOver |-> a.gameOver]

\* C25: the position history starts as the single fingerprint of the initial
\* board, grows by exactly one entry (the new board's fingerprint) on each
\* accepted move, is unchanged when a placement is rejected, and shrinks
\* only on undo, by its last entry, or on restart, to a fresh one-entry
\* history.
C25_PositionHistoryGrows ==
  /\ [](/\ app.positionHistory[1] = boardHash(makeInitialBoard)
        /\ (app.move = 1 => app.positionHistory = <<boardHash(makeInitialBoard)>>)
        /\ \A rc \in ClickCells :
             \A g \in {tryPlaceStep(AppState, rc[1], rc[2])} :
               (g.move = app.move) => g.positionHistory = app.positionHistory)
  /\ [][LET ph == app.positionHistory
            ph2 == app'.positionHistory
        IN /\ (call'.op \in {"placeStone", "computeLegalMoves"} /\ app'.move = app.move + 1)
                => ph2 = Append(ph, boardHash(board'))
           /\ (Len(ph2) < Len(ph)) => call'.op \in {"undo", "onRestart"}
           /\ (call'.op = "undo" /\ Len(app'.history) < Len(app.history))
                => ph2 = SubSeq(ph, 1, Len(ph) - 1)
           /\ (call'.op = "onRestart") => ph2 = <<boardHash(makeInitialBoard)>>]_vars

\* a history that grew through a placement and a pass and then lost an entry
\* to undo
C25_Witness ==
  /\ call.op = "undo"
  /\ Len(app.positionHistory) > Len(FillScript) + 2
  /\ \E i \in 1 .. Len(app.positionHistory) - 1 :
       app.positionHistory[i] = app.positionHistory[i + 1]

\* neither player has a legal placement under the position history of g
NobodyCanPlace(g) ==
  /\ ~any(computeLegalMoves(g.board, "WHITE", forbidSet(g)))
  /\ ~any(computeLegalMoves(g.board, "BLACK", forbidSet(g)))

\* C26: the game ends exactly when neither player has a legal move: right
\* after every accepted placement and every accepted pass gameOver is true
\* if and only if neither White nor Black has a legal placement on the
\* current board under the updated position history; while gameOver is true
\* no placement and no pass changes the state.
C26_GameOverIffNoMoves ==
  /\ (call.op \in {"placeStone", "computeLegalMoves"}) =>
       (app.gameOver <=> NobodyCanPlace(AppState))
  /\ app.gameOver =>
       /\ \A rc \in ClickCells :
            \A g \in {tryPlaceStep(AppState, rc[1], rc[2])} : g = AppState
       /\ \A g \in {onPassStep(AppState)} : g = AppState

\* a game ended by a placement, after a pass earlier in the game
C26_Witness ==
  /\ call.op = "placeStone" /\ ret.kind = "board"
  /\ app.gameOver
  /\ \E i \in 1 .. Len(app.history) - 1 :
       app.history[i].board = app.history[i + 1].board

\* C29: a pass is accepted only when the game is not over and the player to
\* move has no legal placement under the current position history; it leaves
\* the board unchanged, raises the move counter by one, and hands the turn to
\* the opponent if the opponent has a legal placement, else ends the game; a
\* pass attempted while the player has a legal move changes nothing.
C29_PassOnlyWithoutMoves ==
  /\ [](\A g \in {onPassStep(AppState)} :
          IF app.gameOver \/ anyLegal(AppState)
          THEN g = AppState
          ELSE g.board = board /\ g.move = app.move + 1)
  /\ [][(app'.move = app.move + 1 /\ board' = board) =>
          /\ ~app.gameOver
          /\ ~anyLegal(AppState)
          /\ IF any(computeLegalMoves(board, opponent(app.player), forbidSet(AppState)))
             THEN app'.player = opponent(app.player) /\ ~app'.gameOver
             ELSE app'.gameOver]_vars

\* a pass that handed the turn to the opponent
C29_Witness ==
  /\ call.op = "computeLegalMoves"
  /\ ~app.gameOver
  /\ Len(app.history) >= 1
  /\ app.history[Len(app.history)].board = board
  /\ app.history[Len(app.history)].player = opponent(app.player)

\* C30: undo is the inverse of the last accepted placement or pass: after it
\* the board, the player to move and the move number are those that held
\* before that move, the position history has lost exactly its last entry and
\* gameOver is false; undo with an empty undo history changes nothing.
C30_UndoInvertsLastMove ==
  /\ [](Len(app.history) = 0 => \A g \in {undoStep(AppState)} : g = AppState)
  /\ [][/\ (app'.move = app.move + 1) =>
             \A g \in {undoStep(AppRecord(board', app'))} : g = AppState
        /\ (call'.op = "undo" /\ Len(app'.history) < Len(app.history)) =>
             LET last == app.history[Len(app.history)]
                 ph == app.positionHistory
             IN /\ board' = last.board
                /\ app'.player = last.player
                /\ app'.move = last.move
                /\ app'.move = app.move - 1
                /\ app'.history = SubSeq(app.history, 1, Len(app.history) - 1)
                /\ app'.positionHistory = SubSeq(ph, 1, Len(ph) - 1)
                /\ ~app'.gameOver]_vars

\* undo of the move that had ended the game
C30_Witness ==
  /\ call.op = "undo"
  /\ ~app.gameOver
  /\ Len(app.history) >= Len(FillScript)
  /\ \A rc \in ClickCells : ~PlacementAccepted(rc[1], rc[2])
  /\ ~anyLegal(AppState)

\* the cells neighbors(r, c) lists
NeighborSet(r, c) == {neighbors(r, c)[i] : i \in 1 .. Len(neighbors(r, c))}

\* C31: the adjacency given by neighbors is symmetric and irreflexive on the
\* board: a cell b is listed by neighbors(a) exactly when a is listed by
\* neighbors(b), and no cell is listed as its own neighbour.
C31_AdjacencySymmetric ==
  (call.op = "neighbors") =>
    LET a == <<call.r, call.c>>
        listed == {ret.cells[i] : i \in 1 .. Len(ret.cells)}
    IN /\ \A b \in RowIdx \X ColIdx : (b \in listed) <=> (a \in NeighborSet(b[1], b[2]))
       /\ a \notin listed

\* a cell with all six neighbours, in an even column
C31_Witness ==
  /\ call.op = "neighbors"
  /\ call.c % 2 = 0
  /\ Len(ret.cells) = 6
  /\ \A i \in 1 .. 6 : <<call.r, call.c>> \in NeighborSet(ret.cells[i][1], ret.cells[i][2])

\* C32: a move never captures the mover's own stones: after an accepted
\* placeStone by a player, on a board reached by accepted placements, the
\* returned board holds every stone the player had plus the new one at
\* (r, c), so the player's count rises by exactly one, the opponent's count
\* does not rise, and every cell that became Empty held an opponent stone.
C32_MoverKeepsStones ==
  (call.op = "placeStone" /\ ret.kind = "board") =>
    LET mine == playerStone(call.player)
        theirs == playerStone(opponent(call.player))
        before == CellsHolding(board, mine)
        after == CellsHolding(ret.board, mine)
    IN /\ after = before \cup {<<call.r, call.c>>}
       /\ <<call.r, call.c>> \notin before
       /\ Cardinality(after) = Cardinality(before) + 1
       /\ CellsHolding(ret.board, theirs) \subseteq CellsHolding(board, theirs)
       /\ \A x \in CellsHolding(ret.board, EMPTY) \ CellsHolding(board, EMPTY) :
            board[x[1]][x[2]] = theirs

\* an accepted placement that captured while the mover had stones already
C32_Witness ==
  /\ call.op = "placeStone" /\ ret.kind = "board"
  /\ CellsHolding(board, playerStone(call.player)) # {}
  /\ CellsHolding(ret.board, EMPTY) \ CellsHolding(board, EMPTY) # {}
  /\ ret.board[call.r][call.c] = playerStone(call.player)

----------------------------------------------------------------------------
(* computeLegalMoves called with a forbidden set, as App's legalMask does   *)

\* Black's stone in the corner cell, one White stone beside it: White's
\* stone at (1,7) cuts the corner off and captures
CaptureBoard ==
  SetupBoard([x \in SetupCells |->
     IF x = <<0, 7>> THEN BLACK_STONE ELSE IF x = <<0, 6>> THEN WHITE_STONE ELSE EMPTY])

MaskBoards ==
  {makeInitialBoard, RingBoard, CaptureBoard}
    \cup {ZoneBoard(free) : free \in SUBSET CornerCells}

\* forbidden sets made of the board's fingerprint and of the fingerprints of
\* the boards a stone in the corner leads to
MaskForbids(b, player) ==
  UNION {ForbidChoices(b, player, x[1], x[2]) : x \in CornerCells}

MaskInit ==
  /\ board \in MaskBoards
  /\ call = NoCall
  /\ ret = Null
  /\ AppIdle

\* computeLegalMoves(board, p, { forbidHashes })
CallComputeLegalMovesWith ==
  \E p \in Player :
    \E F \in MaskForbids(board, p) :
      /\ call = NoCall
      /\ call' = [NoCall EXCEPT !.op = "computeLegalMoves", !.player = p,
                                !.forbid = F, !.after = forbidAfterCall(F)]
      /\ ret' = Mask(computeLegalMoves(board, p, F))
      /\ board' = callerBoardAfter(board, legalMovesWrites(board, p, F))
      /\ UNCHANGED app

MaskNext == CallComputeLegalMovesWith

MaskSpec == MaskInit /\ [][MaskNext]_vars

\* C33: the legal-move mask shrinks with the forbidden set: the mask
\* computed with a set F is true exactly at the cells where the mask computed
\* without a set is true and the fingerprint of the placed-and-resolved board
\* is not in F; with an empty F the two masks are equal; and a cell legal
\* with F is legal with every subset of F.
C33_MaskShrinksWithForbid ==
  (call.op = "computeLegalMoves" /\ call.forbid.has) =>
    \A plain \in {computeLegalMoves(board, call.player, NoForbid)} :
      /\ \A r \in RowIdx, c \in ColIdx :
           ret.board[r][c] <=>
             /\ plain[r][c]
             /\ boardHash(PlacedResolved(board, call.player, r, c)) \notin call.forbid.set
      /\ (call.forbid.set = {}) => (ret.board = plain)
      /\ \A G \in SUBSET call.forbid.set :
           \A smaller \in {computeLegalMoves(board, call.player, Forbid(G))} :
             \A r \in RowIdx, c \in ColIdx : ret.board[r][c] => smaller[r][c]

\* a set that holds the fingerprint a capturing placement leads to: the cell
\* is legal without the set and not legal with it, other cells staying legal
C33_Witness ==
  /\ call.op = "computeLegalMoves" /\ call.forbid.has
  /\ \E x \in CornerCells :
       /\ board[x[1]][x[2]] = EMPTY
       /\ computeLegalMoves(board, call.player, NoForbid)[x[1]][x[2]]
       /\ ~ret.board[x[1]][x[2]]
       /\ CellsHolding(PlacedResolved(board, call.player, x[1], x[2]), EMPTY)
            \ CellsHolding(board, EMPTY) # {}
  /\ \E r \in RowIdx, c \in ColIdx : ret.board[r][c]

\* C34: in App the undo stack and the position history stay in step: after
\* any placement clicks, passes, undos and restarts the position history has
\* exactly one more entry than the undo stack, its last entry is the
\* fingerprint of the current board, and a click that passes tryPlace's
\* tests up to the legal mask is accepted by placeStone, so no snapshot is
\* pushed without a fingerprint.
C34_HistoriesInStep ==
  /\ Len(app.positionHistory) = Len(app.history) + 1
  /\ app.positionHistory[Len(app.positionHistory)] = boardHash(board)
  /\ \A rc \in ClickCells :
       (~app.gameOver /\ board[rc[1]][rc[2]] = EMPTY /\ legalMask(AppState)[rc[1]][rc[2]])
         => placeStone(board, app.player, rc[1], rc[2], forbidSet(AppState)).kind = "board"

\* an undo that took back a pass, earlier moves staying on the stack and a
\* placement still being open
C34_Witness ==
  /\ call.op = "undo"
  /\ Len(app.history) >= 1
  /\ Len(app.positionHistory) >= 2
  /\ app.positionHistory[Len(app.positionHistory)]
       = app.positionHistory[Len(app.positionHistory) - 1]
  /\ board # makeInitialBoard

====
